---- MODULE Spec2Model ----
(***************************************************************************)
(* xnat-batchrun (src/xnat_batchrun/main.py): log in to XNAT, resolve a    *)
(* project, list its sessions, resolve a container command, confirm, then  *)
(* launch the command on every session from index `skip` on, retrying each *)
(* launch up to 10 times.                                                  *)
(*                                                                         *)
(* The program is single threaded; `pc` is the position of main().  Every  *)
(* HTTP call is one step whose outcome (a status code, or no response at   *)
(* all: requests raises) is chosen by the environment.                     *)
(***************************************************************************)
EXTENDS Integers, Sequences, FiniteSets, TLC

VARIABLES
    server_projects,   \* body the server gives for the project listing (CSV)
    server_sessions,   \* body the server gives for the session listing (CSV)
    server_commands,   \* body the server gives for the command catalog (JSON)
    options,           \* the argparse namespace, with the fields main() adds
    pc,                \* position of main()
    sessions,          \* main(): sessions
    idx,               \* main(): idx of the enumerate loop (0-based)
    confirm,           \* main(): confirm, the operator's raw input
    tries,             \* get_project / run_command: tries
    r,                 \* the last response received (r of the running function)
    exit_code,         \* process exit code, NotExited while running
    error,             \* the exception LOG.error() reported, NoError if none
    sent,              \* number of requests issued so far, per endpoint
    last_status,       \* status of the last reply of each lookup endpoint, 0 if none
    first_ok,          \* which project-listing request was first answered 200, 0 if none
    cookie,            \* JSESSIONID cookie of the last project-listing request
    skipped,           \* indexes logged as skipped, in loop order
    dispatched,        \* indexes for which run_command was called, in call order
    inter_sleeps,      \* durations of the time.sleep(options.sleep) calls so far
    session_events,    \* requests and retry sleeps of the current run_command call
    session_log,       \* log records of the current run_command call
    prompted,          \* number of confirmation prompts read
    launched,          \* URL and session of each run_command call's first launch request
    all_ok,            \* every launch reply of this run so far was 200
    program,           \* the script that is running
    previous           \* what the previous run against the same server did, NoRun if none

inputs == <<server_projects, server_sessions, server_commands>>
locals == <<sessions, idx, confirm, tries, r>>
history == <<sent, last_status, first_ok, cookie, skipped, dispatched, inter_sleeps, session_events, session_log>>
runs == <<prompted, launched, all_ok, program, previous>>
vars == <<inputs, options, pc, locals, exit_code, error, history, runs>>

----------------------------------------------------------------------------
(* Bounds of the model. *)

MaxSessions == 2      \* sessions in the listing: 0..MaxSessions
MaxSkip == 3          \* --skip ranges over MinSkip..MaxSkip
MaxProjects == 2      \* rows of the project listing: 0..MaxProjects

MinSkip == 0 - 1

(* Program constants. *)

MaxTries == 10        \* while tries < 10
RetrySleepSeconds == 10
DefaultSleep == 60
HttpOk == 200

NoResponse == 0 - 1   \* outcome of a request that raises instead of returning
NotExited == 0 - 1
NoError == [text |-> "", args |-> <<>>]
NoReply == [status_code |-> 0, text |-> <<>>]
None == "None"
Batchrun == "xnat-batchrun"
Autorun == "xnat-autorun"
NoRun == [program |-> None, launched |-> <<>>, all_ok |-> TRUE, exit_code |-> NotExited]

----------------------------------------------------------------------------
(* Strings the program formats, parses and compares. *)

\* f"...": the expressions in braces are evaluated and interpolated.
FString(template, values) == [text |-> template, args |-> values]

\* "..." without the f prefix: the braces stay in the text, nothing is interpolated.
PlainString(template) == [text |-> template, args |-> <<>>]

Range(s) == {s[i] : i \in DOMAIN s}

Position(s, x) == CHOOSE i \in DOMAIN s : s[i] = x

\* csv.DictReader over the body: the first line names the columns, every later
\* line becomes a mapping from column name to the field in that column.
DictReader(text) ==
    IF text = <<>> THEN <<>>
    ELSE LET header == text[1]
         IN [i \in 1..(Len(text) - 1) |->
                [h \in Range(header) |-> text[i + 1][Position(header, h)]]]

\* json.loads of a JSON array of objects: each object, a list of key/value
\* members, becomes a dict; a repeated key keeps its last value.
JsonObject(members) ==
    [k \in {members[i][1] : i \in DOMAIN members} |->
        members[CHOOSE i \in DOMAIN members :
                    /\ members[i][1] = k
                    /\ \A j \in DOMAIN members : members[j][1] = k => j <= i][2]]

JsonLoads(text) == [i \in DOMAIN text |-> JsonObject(text[i])]

\* The characters of the operator's answer; str.strip() and str.lower().
Whitespace == {" ", "\t", "\n"}

RECURSIVE LStrip(_)
LStrip(s) == IF s /= <<>> /\ Head(s) \in Whitespace THEN LStrip(Tail(s)) ELSE s

RECURSIVE RStrip(_)
RStrip(s) ==
    IF s /= <<>> /\ s[Len(s)] \in Whitespace THEN RStrip(SubSeq(s, 1, Len(s) - 1)) ELSE s

Strip(s) == RStrip(LStrip(s))

LowerChar(c) ==
    CASE c = "Y" -> "y"
      [] c = "E" -> "e"
      [] c = "S" -> "s"
      [] c = "N" -> "n"
      [] c = "O" -> "o"
      [] OTHER -> c

\* a comparison that forgets .lower()
LowerForgotten(s) == s

Lower(s) == [i \in DOMAIN s |-> LowerChar(s[i])]

----------------------------------------------------------------------------
(* The decisions of the code, one operator per condition. *)

\* a login that never checks the status
LoginNeverFails(status) == FALSE

\* a login that forgets to return the body
SessionTokenMissing(reply) == None

\* login: return r.text
SessionToken(reply) == reply.text

\* login: if r.status_code != 200
LoginFailed(status) == status /= HttpOk

\* get_project: while tries < 10
ProjectTriesLeft(n) == n < MaxTries

\* a project loop without the break
ProjectNeverBreaks(status) == FALSE

\* get_project: if r.status_code == 200: break
ProjectBreak(status) == status = HttpOk

\* get_project: if r.status_code != 200: raise
ProjectFailed(status) == status /= HttpOk

\* get_project: project["ID"] == options.project or project["name"] == options.project
ProjectMatches(project, identifier) ==
    project["ID"] = identifier \/ project["name"] = identifier

\* a loop that keeps the last matching row instead of returning at the first
LastMatch(projects, identifier) ==
    IF \E i \in DOMAIN projects : ProjectMatches(projects[i], identifier)
    THEN CHOOSE i \in DOMAIN projects :
            /\ ProjectMatches(projects[i], identifier)
            /\ \A j \in (i + 1)..Len(projects) : ~ProjectMatches(projects[j], identifier)
    ELSE 0

\* get_project: the for loop returns at the first matching row; 0 if none matches
FirstMatch(projects, identifier) ==
    IF \E i \in DOMAIN projects : ProjectMatches(projects[i], identifier)
    THEN CHOOSE i \in DOMAIN projects :
            /\ ProjectMatches(projects[i], identifier)
            /\ \A j \in 1..(i - 1) : ~ProjectMatches(projects[j], identifier)
    ELSE 0

\* get_project: what the for loop returns, None when it falls through
ProjectId(projects, identifier) ==
    LET m == FirstMatch(projects, identifier)
    IN IF m = 0 THEN None ELSE projects[m]["ID"]

\* the texts of the messages, as written in the source
ProjectNotFoundText == "Project not found: {options.project} - known project: {projects}"
ProjectDownloadFailedText ==
    "Failed to download projects after 10 tries: {r.status_code} {r.text}"
ProxyErrorText == "Proxy error - assuming success for session {session['ID']}: {r.text}"
LaunchFailedText ==
    "Failed to run command on session {session['ID']}: {r.text} after 10 attempts"
StartedText == "Started successfully"
LoginFailedText == "Failed to log in: {r.text}"
CommandQueryFailedText ==
    "Failed to query commands for project {options.project_id}: {r.text}"
CommandNotFoundText ==
    "Unable to find command {options.command} - known commands: {known_commands}"

\* get_project: raise RuntimeError("Project not found: ...") -- not an f-string
ProjectNotFound(requested, names) == PlainString(ProjectNotFoundText)

\* get_project: raise RuntimeError(f"Failed to download projects after 10 tries: ...")
ProjectDownloadFailed(reply) ==
    FString(ProjectDownloadFailedText, <<reply.status_code, reply.text>>)

\* get_sessions: if r.status_code != 200
SessionsFailed(status) == status /= HttpOk

\* get_command: if r.status_code != 200
CommandsFailed(status) == status /= HttpOk

\* a filter that yields the matching descriptors last first
MatchingCommandsReversed(commands, name) ==
    LET hits == SelectSeq(commands, LAMBDA c : c["command-name"] = name)
    IN [i \in DOMAIN hits |-> hits[Len(hits) + 1 - i]]

\* get_command: [c for c in commands if c["command-name"] == options.command]
MatchingCommands(commands, name) ==
    SelectSeq(commands, LAMBDA c : c["command-name"] = name)

\* main: confirm.strip().lower() not in ("y", "yes")
Declined(answer) == Lower(Strip(answer)) \notin {<<"y">>, <<"y", "e", "s">>}

\* an off-by-one skip test
DispatchesAfter(i, skip) == i > skip

\* a skip test with slice semantics: a negative skip counts from the end
DispatchesSliced(i, skip) ==
    i >= (IF skip < 0 THEN Len(sessions) + skip ELSE skip)

\* main: if idx >= options.skip
Dispatches(i, skip) == i >= skip

\* a loop that allows twice the attempts
LaunchTriesLeftDoubled(n) == n < 2 * MaxTries

\* an off-by-one retry bound
LaunchTriesLeftInclusive(n) == n <= MaxTries

\* run_command: while tries < 10
LaunchTriesLeft(n) == n < MaxTries

\* a retry loop that does not stop on 200
LaunchNeverSucceeds(status) == FALSE

\* run_command: if r.status_code == 200: break
LaunchSucceeded(status) == status = HttpOk

\* a proxy-error test that forgets 502
ProxyErrorOnly501(status) == status = 501

\* run_command: elif r.status_code in (501, 502)
ProxyError(status) == status \in {501, 502}

\* a final check that forgets the proxy errors
LaunchFailedNot200(status) == status /= HttpOk

\* run_command: if r.status_code not in (200, 501, 502)
LaunchFailed(status) == status \notin {HttpOk, 501, 502}

----------------------------------------------------------------------------
(* The environment: what the server holds and how it may answer. *)

ProjectIds == {"P1", "P2"}
ProjectNames == {"Study A", "P1"}
ProjectIdentifiers == {"P1", "Study A", "Study B", "p1"}
Headers == {<<"ID", "name">>, <<"name", "ID">>}

SeqsUpTo(S, n) == UNION {[1..k -> S] : k \in 0..n}

\* a CSV body: the header line, then one line per row, the fields in header order
Csv(header, rows) ==
    <<header>> \o [i \in DOMAIN rows |-> [j \in DOMAIN header |-> rows[i][header[j]]]]

ProjectRows == {[ID |-> i, name |-> n] : i \in ProjectIds, n \in ProjectNames}

ProjectListings ==
    {Csv(h, rows) : h \in Headers, rows \in SeqsUpTo(ProjectRows, MaxProjects)}

\* the listing of the runs that go on to dispatch
StudyListing == Csv(<<"ID", "name">>, <<[ID |-> "P1", name |-> "Study A"]>>)

SessionRow(i) == [ID |-> "S" \o ToString(i), label |-> "scan" \o ToString(i)]

SessionListing(n) == Csv(<<"ID", "label">>, [i \in 1..n |-> SessionRow(i)])

Descriptor(name, cid, wid) ==
    <<<<"command-name", name>>, <<"command-id", cid>>, <<"wrapper-id", wid>>>>

Catalogs ==
    { <<Descriptor("qc", 5, 9)>>,
      <<Descriptor("other", 1, 2), Descriptor("qc", 5, 9), Descriptor("qc", 7, 8)>> }

CommandNames == {"qc", "missing"}

ConfirmAnswers ==
    { <<"y">>, <<" ", "Y", "e", "s", "\n">>, <<"n", "o">>, <<"N">>, <<>>, <<"y", "e">>,
      <<"y", " ", "e", "s">> }

LookupStatuses == {200, 404, 500}
LaunchStatuses == {200, 500, 501, 502}

\* the body of the n-th reply of an endpoint, when it is not the resource asked for
Body(endpoint, n) == <<endpoint, n>>

Token == "JSESSION-1"

ConnectionError == PlainString("requests.exceptions.ConnectionError")

SleepChoices == {0, DefaultSleep}

----------------------------------------------------------------------------
(* Initial states: the parsed command line and the server's data. *)

InitWith(listings, identifiers, catalogs, commands, counts, skips, sleeps) ==
    /\ server_projects \in listings
    /\ server_sessions \in {SessionListing(n) : n \in counts}
    /\ server_commands \in catalogs
    /\ options \in [project : identifiers, command : commands, sleep : sleeps,
                     skip : skips, yes : BOOLEAN, jsession_id : {None},
                     project_id : {None}, command_id : {0}, command_wrapper_id : {0}]
    /\ pc = "login"
    /\ sessions = <<>>
    /\ idx = 0
    /\ confirm = <<>>
    /\ tries = 0
    /\ r = NoReply
    /\ exit_code = NotExited
    /\ error = NoError
    /\ sent = [auth |-> 0, projects |-> 0, sessions |-> 0, commands |-> 0, launch |-> 0]
    /\ last_status = [auth |-> 0, projects |-> 0, sessions |-> 0, commands |-> 0]
    /\ first_ok = 0
    /\ cookie = None
    /\ skipped = <<>>
    /\ dispatched = <<>>
    /\ inter_sleeps = <<>>
    /\ session_events = <<>>
    /\ session_log = <<>>
    /\ prompted = 0
    /\ launched = <<>>
    /\ all_ok = TRUE
    /\ program = Batchrun
    /\ previous = NoRun

Init ==
    InitWith({StudyListing}, {"P1", "Study B"}, Catalogs, CommandNames,
             0..MaxSessions, MinSkip..MaxSkip, SleepChoices)

InitProject ==
    InitWith(ProjectListings, ProjectIdentifiers, {<<>>}, {"qc"}, {0}, {0}, {DefaultSleep})

----------------------------------------------------------------------------
(* The steps of main(). *)

\* except Exception as exc: LOG.error(exc); sys.exit(1)
Fatal(exc) ==
    /\ pc' = "done"
    /\ exit_code' = 1
    /\ error' = exc

Reply(status, text) == [status_code |-> status, text |-> text]

\* get_project: options.jsession_id = login(options)
Login ==
    /\ pc = "login"
    /\ sent' = [sent EXCEPT !.auth = @ + 1]
    /\ \E status \in LookupStatuses \cup {NoResponse} :
          /\ last_status' = [last_status EXCEPT !.auth = status]
          /\ IF status = NoResponse
             THEN /\ Fatal(ConnectionError)
                  /\ UNCHANGED <<r, options, tries>>
             ELSE LET reply == Reply(status, IF status = HttpOk THEN Token
                                             ELSE Body("auth", sent.auth + 1))
                  IN /\ r' = reply
                     /\ IF LoginFailed(status)
                        THEN /\ Fatal(FString(LoginFailedText, <<reply.text>>))
                             /\ UNCHANGED <<options, tries>>
                        ELSE /\ options' = [options EXCEPT !.jsession_id = SessionToken(reply)]
                             /\ tries' = 0
                             /\ pc' = "get_project"
                             /\ UNCHANGED <<exit_code, error>>
    /\ UNCHANGED <<inputs, sessions, idx, confirm, first_ok, cookie, skipped, dispatched,
                   inter_sleeps, session_events, session_log>>
    /\ UNCHANGED runs

\* get_project: one pass of the while loop, requests.get(url, cookies=cookies, ...)
ProjectRequest ==
    /\ pc = "get_project"
    /\ ProjectTriesLeft(tries)
    /\ tries' = tries + 1
    /\ sent' = [sent EXCEPT !.projects = @ + 1]
    /\ cookie' = options.jsession_id
    /\ \E status \in LookupStatuses \cup {NoResponse} :
          /\ last_status' = [last_status EXCEPT !.projects = status]
          /\ first_ok' = IF first_ok = 0 /\ status = HttpOk THEN sent.projects + 1
                         ELSE first_ok
          /\ IF status = NoResponse
             THEN /\ Fatal(ConnectionError)
                  /\ UNCHANGED r
             ELSE /\ r' = Reply(status, IF status = HttpOk THEN server_projects
                                        ELSE Body("projects", sent.projects + 1))
                  /\ pc' = IF ProjectBreak(status) \/ ~ProjectTriesLeft(tries + 1)
                           THEN "resolve_project" ELSE "get_project"
                  /\ UNCHANGED <<exit_code, error>>
    /\ UNCHANGED <<inputs, options, sessions, idx, confirm, skipped, dispatched,
                   inter_sleeps, session_events, session_log>>
    /\ UNCHANGED runs

ProjectNamesOf(projects) == [i \in DOMAIN projects |-> projects[i]["name"]]

\* get_project: after the loop, the status check, the CSV parse and the match
ResolveProject ==
    /\ pc = "resolve_project"
    /\ IF ProjectFailed(r.status_code)
       THEN /\ Fatal(ProjectDownloadFailed(r))
            /\ UNCHANGED options
       ELSE LET projects == DictReader(r.text)
                found == ProjectId(projects, options.project)
            IN IF found /= None
               THEN /\ options' = [options EXCEPT !.project_id = found]
                    /\ pc' = "get_sessions"
                    /\ UNCHANGED <<exit_code, error>>
               ELSE /\ Fatal(ProjectNotFound(options.project, ProjectNamesOf(projects)))
                    /\ UNCHANGED options
    /\ UNCHANGED <<inputs, locals, history>>
    /\ UNCHANGED runs

\* main: sessions = get_sessions(options), a single request
GetSessions ==
    /\ pc = "get_sessions"
    /\ sent' = [sent EXCEPT !.sessions = @ + 1]
    /\ \E status \in LookupStatuses \cup {NoResponse} :
          /\ last_status' = [last_status EXCEPT !.sessions = status]
          /\ IF status = NoResponse
             THEN /\ Fatal(ConnectionError)
                  /\ UNCHANGED <<r, sessions>>
             ELSE LET reply == Reply(status, IF status = HttpOk THEN server_sessions
                                             ELSE Body("sessions", sent.sessions + 1))
                  IN /\ r' = reply
                     /\ IF SessionsFailed(status)
                        THEN /\ Fatal(FString(
                                   "Failed to download sessions for project {options.project_id}: {r.text}",
                                   <<options.project_id, reply.text>>))
                             /\ UNCHANGED sessions
                        ELSE /\ sessions' = DictReader(reply.text)
                             /\ pc' = "get_command"
                             /\ UNCHANGED <<exit_code, error>>
    /\ UNCHANGED <<inputs, options, idx, confirm, tries, first_ok, cookie, skipped,
                   dispatched, inter_sleeps, session_events, session_log>>
    /\ UNCHANGED runs

CommandNamesOf(commands) == [i \in DOMAIN commands |-> commands[i]["command-name"]]

\* main: command = get_command(options), a single request, then the two ids
GetCommand ==
    /\ pc = "get_command"
    /\ sent' = [sent EXCEPT !.commands = @ + 1]
    /\ \E status \in LookupStatuses \cup {NoResponse} :
          /\ last_status' = [last_status EXCEPT !.commands = status]
          /\ IF status = NoResponse
             THEN /\ Fatal(ConnectionError)
                  /\ UNCHANGED <<r, options>>
             ELSE LET reply == Reply(status, IF status = HttpOk THEN server_commands
                                             ELSE Body("commands", sent.commands + 1))
                  IN /\ r' = reply
                     /\ IF CommandsFailed(status)
                        THEN /\ Fatal(FString(
                                   CommandQueryFailedText,
                                   <<options.project_id, reply.text>>))
                             /\ UNCHANGED options
                        ELSE LET commands == JsonLoads(reply.text)
                                 command == MatchingCommands(commands, options.command)
                             IN IF command = <<>>
                                THEN /\ Fatal(FString(
                                           CommandNotFoundText,
                                           <<options.command, CommandNamesOf(commands)>>))
                                     /\ UNCHANGED options
                                ELSE /\ options' = [options EXCEPT
                                           !.command_wrapper_id = command[1]["wrapper-id"],
                                           !.command_id = command[1]["command-id"]]
                                     /\ pc' = "confirm"
                                     /\ UNCHANGED <<exit_code, error>>
    /\ UNCHANGED <<inputs, sessions, idx, confirm, tries, first_ok, cookie, skipped,
                   dispatched, inter_sleeps, session_events, session_log>>
    /\ UNCHANGED runs

\* main: options.yes is set, no prompt
AutoConfirm ==
    /\ pc = "confirm"
    /\ options.yes
    /\ pc' = "loop"
    /\ idx' = 0
    /\ UNCHANGED <<inputs, options, sessions, confirm, tries, r, exit_code, error, history>>
    /\ UNCHANGED runs

\* main: confirm = input(...); anything but y / yes ends the run with sys.exit(1)
Confirm ==
    /\ pc = "confirm"
    /\ ~options.yes
    /\ \E answer \in ConfirmAnswers :
          /\ confirm' = answer
          /\ IF Declined(answer)
             THEN /\ pc' = "done"
                  /\ exit_code' = 1
             ELSE /\ pc' = "loop"
                  /\ UNCHANGED exit_code
    /\ idx' = 0
    /\ UNCHANGED <<inputs, options, sessions, tries, r, error, history>>
    /\ prompted' = prompted + 1
    /\ UNCHANGED <<launched, all_ok, program, previous>>

\* a loop that sleeps after a skipped session too
SkipSessionSleeping ==
    /\ pc = "loop"
    /\ idx < Len(sessions)
    /\ ~Dispatches(idx, options.skip)
    /\ skipped' = Append(skipped, idx)
    /\ inter_sleeps' = Append(inter_sleeps, [after |-> idx, seconds |-> options.sleep])
    /\ idx' = idx + 1
    /\ UNCHANGED <<inputs, options, pc, sessions, confirm, tries, r, exit_code, error,
                   sent, last_status, first_ok, cookie, dispatched,
                   session_events, session_log>>
    /\ UNCHANGED runs

\* main: else: LOG.info(f"Skipping session {idx}: ...")
SkipSession ==
    /\ pc = "loop"
    /\ idx < Len(sessions)
    /\ ~Dispatches(idx, options.skip)
    /\ skipped' = Append(skipped, idx)
    /\ idx' = idx + 1
    /\ UNCHANGED <<inputs, options, pc, sessions, confirm, tries, r, exit_code, error,
                   sent, last_status, first_ok, cookie, dispatched, inter_sleeps,
                   session_events, session_log>>
    /\ UNCHANGED runs

LogRecord(level, message) == [level |-> level, message |-> message]

\* main: run_command(options, session, idx), up to the while loop
RunCommand ==
    /\ pc = "loop"
    /\ idx < Len(sessions)
    /\ Dispatches(idx, options.skip)
    /\ dispatched' = Append(dispatched, idx)
    /\ session_events' = <<>>
    /\ session_log' = <<LogRecord("info", FString(
            "Running command {options.command} on session {idx} {session['ID']} : {session['label']}",
            <<options.command, idx, sessions[idx + 1]["ID"], sessions[idx + 1]["label"]>>))>>
    /\ tries' = 0
    /\ r' = NoReply
    /\ pc' = "launch"
    /\ UNCHANGED <<inputs, options, sessions, idx, confirm, exit_code, error,
                   sent, last_status, first_ok, cookie, skipped, inter_sleeps>>
    /\ UNCHANGED runs

LaunchUrl == <<options.project_id, options.command_id, options.command_wrapper_id>>

\* a launch request with the status of its reply, or a retry sleep
Event(kind, sid, status, seconds, url) ==
    [ev |-> kind, session |-> sid, status |-> status, seconds |-> seconds, url |-> url]

\* run_command: one pass of the while loop up to the break or the sleep
LaunchRequest ==
    /\ pc = "launch"
    /\ LaunchTriesLeft(tries)
    /\ tries' = tries + 1
    /\ sent' = [sent EXCEPT !.launch = @ + 1]
    /\ \E status \in LaunchStatuses \cup {NoResponse} :
          /\ session_events' = Append(session_events,
                Event("post", sessions[idx + 1]["ID"], status, 0, LaunchUrl))
          /\ all_ok' = (all_ok /\ status = HttpOk)
          /\ IF status = NoResponse
             THEN /\ Fatal(ConnectionError)
                  /\ UNCHANGED <<r, session_log>>
             ELSE LET reply == Reply(status, Body("launch", sent.launch + 1))
                  IN /\ r' = reply
                     /\ UNCHANGED <<exit_code, error>>
                     /\ IF LaunchSucceeded(status)
                        THEN /\ pc' = "report"
                             /\ UNCHANGED session_log
                        ELSE IF ProxyError(status)
                        THEN /\ pc' = "report"
                             /\ session_log' = Append(session_log, LogRecord("warning", FString(
                                   ProxyErrorText,
                                   <<sessions[idx + 1]["ID"], reply.text>>)))
                        ELSE /\ pc' = "retry_sleep"
                             /\ UNCHANGED session_log
    /\ UNCHANGED <<inputs, options, sessions, idx, confirm, last_status, first_ok, cookie,
                   skipped, dispatched, inter_sleeps>>
    /\ launched' = IF tries = 0
                   THEN Append(launched, [url |-> LaunchUrl, session |-> sessions[idx + 1]["ID"]])
                   ELSE launched
    /\ UNCHANGED <<prompted, program, previous>>

\* run_command: time.sleep(10), then the loop condition
RetrySleep ==
    /\ pc = "retry_sleep"
    /\ session_events' =
            Append(session_events,
                   Event("sleep", sessions[idx + 1]["ID"], 0, RetrySleepSeconds, <<>>))
    /\ pc' = IF LaunchTriesLeft(tries) THEN "launch" ELSE "report"
    /\ UNCHANGED <<inputs, options, locals, exit_code, error, sent, last_status, first_ok,
                   cookie, skipped, dispatched, inter_sleeps, session_log>>
    /\ UNCHANGED runs

\* run_command: after the loop, the warning and the final info record
Report ==
    /\ pc = "report"
    /\ session_log' =
            (IF LaunchFailed(r.status_code)
             THEN Append(session_log, LogRecord("warning", FString(
                    LaunchFailedText,
                    <<sessions[idx + 1]["ID"], r.text>>)))
             ELSE session_log)
            \o <<LogRecord("info", PlainString(StartedText))>>
    /\ pc' = "inter_sleep"
    /\ UNCHANGED <<inputs, options, locals, exit_code, error, sent, last_status, first_ok,
                   cookie, skipped, dispatched, inter_sleeps, session_events>>
    /\ UNCHANGED runs

\* main: time.sleep(options.sleep), then the next session
InterSleep ==
    /\ pc = "inter_sleep"
    /\ inter_sleeps' = Append(inter_sleeps, [after |-> idx, seconds |-> options.sleep])
    /\ idx' = idx + 1
    /\ pc' = "loop"
    /\ UNCHANGED <<inputs, options, sessions, confirm, tries, r, exit_code, error,
                   sent, last_status, first_ok, cookie, skipped, dispatched,
                   session_events, session_log>>
    /\ UNCHANGED runs

\* main: the for loop is exhausted; main returns and the process exits 0
Finish ==
    /\ pc = "loop"
    /\ idx >= Len(sessions)
    /\ pc' = "done"
    /\ exit_code' = 0
    /\ UNCHANGED <<inputs, options, locals, error, history>>
    /\ UNCHANGED runs

Next ==
    \/ Login
    \/ ProjectRequest
    \/ ResolveProject
    \/ GetSessions
    \/ GetCommand
    \/ AutoConfirm
    \/ Confirm
    \/ SkipSession
    \/ RunCommand
    \/ LaunchRequest
    \/ RetrySleep
    \/ Report
    \/ InterSleep
    \/ Finish

Spec == Init /\ [][Next]_vars

\* project resolution alone, over every listing and identifier of the bounds
NextProject ==
    \/ Login
    \/ ProjectRequest
    \/ ResolveProject

SpecProject == InitProject /\ [][NextProject]_vars

----------------------------------------------------------------------------
(* An interrupted run and the manual run with --skip that follows it. *)

\* what a run leaves behind for the comparison with the next one
Outcome == [program |-> program, launched |-> launched, all_ok |-> all_ok,
            exit_code |-> exit_code]

\* a new process: every variable of main() as at its start, the server untouched
Restart(name, command_line) ==
    /\ program' = name
    /\ options' = command_line
    /\ previous' = Outcome
    /\ pc' = "login"
    /\ sessions' = <<>>
    /\ idx' = 0
    /\ confirm' = <<>>
    /\ tries' = 0
    /\ r' = NoReply
    /\ exit_code' = NotExited
    /\ error' = NoError
    /\ sent' = [auth |-> 0, projects |-> 0, sessions |-> 0, commands |-> 0, launch |-> 0]
    /\ last_status' = [auth |-> 0, projects |-> 0, sessions |-> 0, commands |-> 0]
    /\ first_ok' = 0
    /\ cookie' = None
    /\ skipped' = <<>>
    /\ dispatched' = <<>>
    /\ inter_sleeps' = <<>>
    /\ session_events' = <<>>
    /\ session_log' = <<>>
    /\ prompted' = 0
    /\ launched' = <<>>
    /\ all_ok' = TRUE
    /\ UNCHANGED inputs

\* the command line of the run, before main() fills in what it looks up
CommandLine(skip) ==
    [options EXCEPT !.skip = skip, !.jsession_id = None, !.project_id = None,
                    !.command_id = 0, !.command_wrapper_id = 0]

\* main: the process is killed between two passes of the for loop; nothing in
\* main() catches it and nothing is saved
Interrupt ==
    /\ program = Batchrun
    /\ previous.program = None
    /\ pc \in {"inter_sleep", "loop"}
    /\ pc' = "killed"
    /\ UNCHANGED <<inputs, options, locals, exit_code, error, history, runs>>

\* the operator runs the program again with --skip set to the number of sessions
\* the killed run had finished
Resume ==
    /\ pc = "killed"
    /\ Restart(Batchrun, CommandLine(Len(dispatched)))

InitResume ==
    InitWith({StudyListing}, {"P1"}, {<<Descriptor("qc", 5, 9)>>}, {"qc"},
             0..MaxSessions, {0}, {0})

NextResume ==
    \/ Next
    \/ Interrupt
    \/ Resume

SpecResume == InitResume /\ [][NextResume]_vars

----------------------------------------------------------------------------
(* The older script, src/xnat-autorun.py, and a run of xnat_batchrun after it. *)

\* a check that lets proxy errors pass, as xnat_batchrun does
AutorunLaunchTolerant(status) == status \notin {HttpOk, 501, 502}

\* run_command: if r.status_code != 200
AutorunLaunchFailed(status) == status /= HttpOk

\* get_project, get_sessions, get_command: if r.status_code != 200
AutorunLookupFailed(status) == status /= HttpOk

AutorunProjectDownloadFailedText == "Failed to download projects: {r.text}"
AutorunSessionsFailedText ==
    "Failed to download sessions for project {options.project_id}: {r.text}"
AutorunLaunchFailedText == "Failed to run command: {r.text}"

\* options.project_id = get_project(options): one request with basic auth, no
\* login and no retry, then the same row match
AutorunGetProject ==
    /\ pc = "autorun_get_project"
    /\ sent' = [sent EXCEPT !.projects = @ + 1]
    /\ \E status \in LookupStatuses \cup {NoResponse} :
          /\ last_status' = [last_status EXCEPT !.projects = status]
          /\ IF status = NoResponse
             THEN /\ Fatal(ConnectionError)
                  /\ UNCHANGED <<r, options>>
             ELSE LET reply == Reply(status, IF status = HttpOk THEN server_projects
                                             ELSE Body("projects", sent.projects + 1))
                  IN /\ r' = reply
                     /\ IF AutorunLookupFailed(status)
                        THEN /\ Fatal(FString(AutorunProjectDownloadFailedText,
                                              <<reply.text>>))
                             /\ UNCHANGED options
                        ELSE LET projects == DictReader(reply.text)
                                 found == ProjectId(projects, options.project)
                             IN IF found /= None
                                THEN /\ options' = [options EXCEPT !.project_id = found]
                                     /\ pc' = "autorun_get_sessions"
                                     /\ UNCHANGED <<exit_code, error>>
                                ELSE /\ Fatal(PlainString(ProjectNotFoundText))
                                     /\ UNCHANGED options
    /\ UNCHANGED <<inputs, sessions, idx, confirm, tries, first_ok, cookie, skipped,
                   dispatched, inter_sleeps, session_events, session_log>>
    /\ UNCHANGED runs

\* sessions = get_sessions(options)
AutorunGetSessions ==
    /\ pc = "autorun_get_sessions"
    /\ sent' = [sent EXCEPT !.sessions = @ + 1]
    /\ \E status \in LookupStatuses \cup {NoResponse} :
          /\ last_status' = [last_status EXCEPT !.sessions = status]
          /\ IF status = NoResponse
             THEN /\ Fatal(ConnectionError)
                  /\ UNCHANGED <<r, sessions>>
             ELSE LET reply == Reply(status, IF status = HttpOk THEN server_sessions
                                             ELSE Body("sessions", sent.sessions + 1))
                  IN /\ r' = reply
                     /\ IF AutorunLookupFailed(status)
                        THEN /\ Fatal(FString(AutorunSessionsFailedText,
                                              <<options.project_id, reply.text>>))
                             /\ UNCHANGED sessions
                        ELSE /\ sessions' = DictReader(reply.text)
                             /\ pc' = "autorun_get_command"
                             /\ UNCHANGED <<exit_code, error>>
    /\ UNCHANGED <<inputs, options, idx, confirm, tries, first_ok, cookie, skipped,
                   dispatched, inter_sleeps, session_events, session_log>>
    /\ UNCHANGED runs

\* command = get_command(options), then the two ids
AutorunGetCommand ==
    /\ pc = "autorun_get_command"
    /\ sent' = [sent EXCEPT !.commands = @ + 1]
    /\ \E status \in LookupStatuses \cup {NoResponse} :
          /\ last_status' = [last_status EXCEPT !.commands = status]
          /\ IF status = NoResponse
             THEN /\ Fatal(ConnectionError)
                  /\ UNCHANGED <<r, options>>
             ELSE LET reply == Reply(status, IF status = HttpOk THEN server_commands
                                             ELSE Body("commands", sent.commands + 1))
                  IN /\ r' = reply
                     /\ IF AutorunLookupFailed(status)
                        THEN /\ Fatal(FString(CommandQueryFailedText,
                                              <<options.project_id, reply.text>>))
                             /\ UNCHANGED options
                        ELSE LET commands == JsonLoads(reply.text)
                                 command == MatchingCommands(commands, options.command)
                             IN IF command = <<>>
                                THEN /\ Fatal(FString(
                                           CommandNotFoundText,
                                           <<options.command, CommandNamesOf(commands)>>))
                                     /\ UNCHANGED options
                                ELSE /\ options' = [options EXCEPT
                                           !.command_wrapper_id = command[1]["wrapper-id"],
                                           !.command_id = command[1]["command-id"]]
                                     /\ pc' = "autorun_confirm"
                                     /\ UNCHANGED <<exit_code, error>>
    /\ UNCHANGED <<inputs, sessions, idx, confirm, tries, first_ok, cookie, skipped,
                   dispatched, inter_sleeps, session_events, session_log>>
    /\ UNCHANGED runs

\* main: if not options.yes is false, straight to the for loop
AutorunAutoConfirm ==
    /\ pc = "autorun_confirm"
    /\ options.yes
    /\ pc' = "autorun_loop"
    /\ idx' = 0
    /\ UNCHANGED <<inputs, options, sessions, confirm, tries, r, exit_code, error, history>>
    /\ UNCHANGED runs

\* main: confirm = input(...); anything but y / yes ends the run with sys.exit(1)
AutorunConfirm ==
    /\ pc = "autorun_confirm"
    /\ ~options.yes
    /\ \E answer \in ConfirmAnswers :
          /\ confirm' = answer
          /\ IF Declined(answer)
             THEN /\ pc' = "done"
                  /\ exit_code' = 1
             ELSE /\ pc' = "autorun_loop"
                  /\ UNCHANGED exit_code
    /\ idx' = 0
    /\ prompted' = prompted + 1
    /\ UNCHANGED <<inputs, options, sessions, tries, r, error, history>>
    /\ UNCHANGED <<launched, all_ok, program, previous>>

\* main: run_command(options, session) for the next session of the for loop:
\* one post, and anything but 200 raises
AutorunRunCommand ==
    /\ pc = "autorun_loop"
    /\ idx < Len(sessions)
    /\ dispatched' = Append(dispatched, idx)
    /\ sent' = [sent EXCEPT !.launch = @ + 1]
    /\ launched' = Append(launched, [url |-> LaunchUrl, session |-> sessions[idx + 1]["ID"]])
    /\ \E status \in LaunchStatuses \cup {NoResponse} :
          LET running == LogRecord("info", FString(
                  "Running command {options.command} on session {session['ID']} : {session['label']}",
                  <<options.command, sessions[idx + 1]["ID"], sessions[idx + 1]["label"]>>))
          IN /\ session_events' =
                    <<Event("post", sessions[idx + 1]["ID"], status, 0, LaunchUrl)>>
             /\ all_ok' = (all_ok /\ status = HttpOk)
             /\ IF status = NoResponse
                THEN /\ Fatal(ConnectionError)
                     /\ session_log' = <<running>>
                     /\ UNCHANGED r
                ELSE LET reply == Reply(status, Body("launch", sent.launch + 1))
                     IN /\ r' = reply
                        /\ IF AutorunLaunchFailed(status)
                           THEN /\ Fatal(FString(AutorunLaunchFailedText, <<reply.text>>))
                                /\ session_log' = <<running>>
                           ELSE /\ pc' = "autorun_sleep"
                                /\ session_log' =
                                      <<running, LogRecord("info", PlainString(StartedText))>>
                                /\ UNCHANGED <<exit_code, error>>
    /\ UNCHANGED <<inputs, options, sessions, idx, confirm, tries, last_status, first_ok,
                   cookie, skipped, inter_sleeps>>
    /\ UNCHANGED <<prompted, program, previous>>

\* main: time.sleep(options.sleep), then the next session
AutorunSleep ==
    /\ pc = "autorun_sleep"
    /\ inter_sleeps' = Append(inter_sleeps, [after |-> idx, seconds |-> options.sleep])
    /\ idx' = idx + 1
    /\ pc' = "autorun_loop"
    /\ UNCHANGED <<inputs, options, sessions, confirm, tries, r, exit_code, error,
                   sent, last_status, first_ok, cookie, skipped, dispatched,
                   session_events, session_log>>
    /\ UNCHANGED runs

\* main: the for loop is exhausted; main returns and the process exits 0
AutorunFinish ==
    /\ pc = "autorun_loop"
    /\ idx >= Len(sessions)
    /\ pc' = "done"
    /\ exit_code' = 0
    /\ UNCHANGED <<inputs, options, locals, error, history>>
    /\ UNCHANGED runs

\* after a complete run of the older script, xnat_batchrun is run with the same
\* command line, with or without --skip, against the same server
StartBatchrun ==
    /\ program = Autorun
    /\ pc = "done"
    /\ exit_code = 0
    /\ \E skip \in 0..MaxSkip : Restart(Batchrun, CommandLine(skip))

InitAutorun ==
    /\ server_projects = StudyListing
    /\ server_sessions \in {SessionListing(n) : n \in 0..MaxSessions}
    /\ server_commands \in Catalogs
    /\ options \in [project : {"P1", "Study B"}, command : {"qc"}, sleep : {0},
                     skip : {0}, yes : BOOLEAN, jsession_id : {None},
                     project_id : {None}, command_id : {0}, command_wrapper_id : {0}]
    /\ program = Autorun
    /\ previous = NoRun
    /\ pc = "autorun_get_project"
    /\ sessions = <<>>
    /\ idx = 0
    /\ confirm = <<>>
    /\ tries = 0
    /\ r = NoReply
    /\ exit_code = NotExited
    /\ error = NoError
    /\ sent = [auth |-> 0, projects |-> 0, sessions |-> 0, commands |-> 0, launch |-> 0]
    /\ last_status = [auth |-> 0, projects |-> 0, sessions |-> 0, commands |-> 0]
    /\ first_ok = 0
    /\ cookie = None
    /\ skipped = <<>>
    /\ dispatched = <<>>
    /\ inter_sleeps = <<>>
    /\ session_events = <<>>
    /\ session_log = <<>>
    /\ prompted = 0
    /\ launched = <<>>
    /\ all_ok = TRUE

NextAutorun ==
    \/ AutorunGetProject
    \/ AutorunGetSessions
    \/ AutorunGetCommand
    \/ AutorunAutoConfirm
    \/ AutorunConfirm
    \/ AutorunRunCommand
    \/ AutorunSleep
    \/ AutorunFinish
    \/ StartBatchrun
    \/ Next

SpecAutorun == InitAutorun /\ [][NextAutorun]_vars

----------------------------------------------------------------------------
(* Properties of the dispatch loop. *)

Last(s) == s[Len(s)]

\* the launch requests of the current run_command call
Posts == SelectSeq(session_events, LAMBDA e : e.ev = "post")

\* the session the current (or last) run_command call is for
CurrentId == sessions[Last(dispatched) + 1]["ID"]

\* the run_command call of the last dispatched session has returned
SessionEnded ==
    /\ pc \in {"inter_sleep", "loop", "done"}
    /\ dispatched /= <<>>
    /\ error = NoError

Logged(level, text, args) ==
    \E i \in DOMAIN session_log :
        /\ session_log[i].level = level
        /\ session_log[i].message.text = text
        /\ session_log[i].message.args = args

LoggedText(text) == \E i \in DOMAIN session_log : session_log[i].message.text = text

\* C1: with 0 <= skip <= N, run_command is called for exactly the sessions at index
\* skip..N-1, in increasing order; every launch request is for the session of the
\* call in progress; the sessions at index < skip are logged as skipped and get no
\* request; a run that ends normally has dispatched all N - skip of them.
C1_DispatchFromSkip ==
    LET N == Len(sessions)
        k == options.skip
    IN k \in 0..N =>
        /\ Len(dispatched) <= N - k
        /\ \A j \in DOMAIN dispatched : dispatched[j] = k + j - 1
        /\ \A j \in DOMAIN skipped : skipped[j] = j - 1 /\ skipped[j] < k
        /\ sent.launch > 0 => dispatched /= <<>>
        /\ \A i \in DOMAIN session_events :
              session_events[i].ev = "post" =>
                /\ dispatched /= <<>>
                /\ session_events[i].session = CurrentId
        /\ sent.launch >= Len(dispatched) - 1
        /\ (pc = "done" /\ exit_code = 0) =>
              /\ Len(dispatched) = N - k
              /\ Len(skipped) = k
              /\ sent.launch >= N - k

C1_Witness ==
    /\ pc = "done"
    /\ exit_code = 0
    /\ Len(sessions) = 2
    /\ options.skip = 1
    /\ skipped = <<0>>
    /\ dispatched = <<1>>
    /\ sent.launch > 1

\* C2: once launching has begun nothing a launch attempt does ends the run: a run
\* that has issued a launch request never exits with code 1, and when it ends every
\* session at index >= skip has been dispatched.
C2_LaunchFailureNeverFatal ==
    sent.launch > 0 =>
        /\ exit_code /= 1
        /\ pc = "done" =>
              \A i \in 0..(Len(sessions) - 1) :
                  i >= options.skip => \E j \in DOMAIN dispatched : dispatched[j] = i

\* C3: when every launch reply of a session has a status other than 200, 501, 502,
\* the session gets exactly 10 requests, each followed by one 10 second sleep, the
\* failure warning carries the body of the last reply, and the run is not aborted.
C3_ExhaustedRetries ==
    (/\ SessionEnded
     /\ \A i \in DOMAIN Posts : Posts[i].status \notin {200, 501, 502}) =>
        /\ Len(Posts) = 10
        /\ Len(session_events) = 20
        /\ \A i \in 1..10 :
              /\ session_events[2 * i - 1].ev = "post"
              /\ session_events[2 * i - 1].session = CurrentId
              /\ session_events[2 * i].ev = "sleep"
              /\ session_events[2 * i].seconds = 10
        /\ r.text = Body("launch", sent.launch)
        /\ Logged("warning", LaunchFailedText, <<CurrentId, Body("launch", sent.launch)>>)
        /\ exit_code /= 1
        /\ pc = "done" => Last(dispatched) = Len(sessions) - 1

C3_Witness ==
    /\ SessionEnded
    /\ pc = "inter_sleep"
    /\ Len(dispatched) = 2
    /\ Len(Posts) = 10
    /\ \A i \in DOMAIN Posts : Posts[i].status = 500
    /\ LoggedText(LaunchFailedText)

\* C4: a 200 reply is the last event of its session: no request and no retry sleep
\* follows it, so a session whose first reply is 200 has exactly one request.
C4_StopOn200 ==
    \A i \in DOMAIN session_events :
        (session_events[i].ev = "post" /\ session_events[i].status = 200) =>
            /\ i = Len(session_events)
            /\ pc \notin {"launch", "retry_sleep"}

C4_Witness ==
    /\ pc = "inter_sleep"
    /\ Len(session_events) = 1
    /\ session_events[1].ev = "post"
    /\ session_events[1].status = 200

\* C5: a 501 or 502 reply is the last event of its session, the proxy-error warning
\* with the reply's body is logged, the failure warning is not, and the run does
\* not fail.
C5_ProxyErrorAssumedSuccess ==
    \A i \in DOMAIN session_events :
        (session_events[i].ev = "post" /\ session_events[i].status \in {501, 502}) =>
            /\ i = Len(session_events)
            /\ pc \notin {"launch", "retry_sleep"}
            /\ Logged("warning", ProxyErrorText, <<CurrentId, Body("launch", sent.launch)>>)
            /\ ~LoggedText(LaunchFailedText)
            /\ exit_code /= 1

C5_Witness ==
    /\ pc = "done"
    /\ exit_code = 0
    /\ Len(session_events) = 1
    /\ session_events[1].status = 502
    /\ LoggedText(ProxyErrorText)

\* C6: one sleep of options.sleep seconds follows each dispatched session's
\* run_command call and precedes the next session's first request; skipped
\* sessions get none.
C6_OneSleepPerDispatch ==
    /\ \A j \in DOMAIN inter_sleeps :
          /\ j \in DOMAIN dispatched
          /\ inter_sleeps[j].after = dispatched[j]
          /\ inter_sleeps[j].seconds = options.sleep
          /\ \A i \in DOMAIN skipped : skipped[i] /= inter_sleeps[j].after
    /\ pc \in {"launch", "retry_sleep", "report", "inter_sleep"} =>
          Len(inter_sleeps) = Len(dispatched) - 1
    /\ pc = "loop" => Len(inter_sleeps) = Len(dispatched)
    /\ (pc = "done" /\ exit_code = 0) => Len(inter_sleeps) = Len(dispatched)

C6_Witness ==
    /\ pc = "done"
    /\ exit_code = 0
    /\ skipped = <<0>>
    /\ Len(dispatched) = 1
    /\ Len(inter_sleeps) = 1
    /\ Len(Posts) = 10

----------------------------------------------------------------------------
(* Properties of the lookups that precede the dispatch loop. *)

\* row i of the listing the server holds has the requested identifier as ID or name
Hit(i) ==
    LET projects == DictReader(server_projects)
    IN projects[i]["ID"] = options.project \/ projects[i]["name"] = options.project

NoProjectHit == \A i \in DOMAIN DictReader(server_projects) : ~Hit(i)

NoCommandHit ==
    \A i \in DOMAIN server_commands :
        JsonObject(server_commands[i])["command-name"] /= options.command

\* the run has ended with exit code 1 and without any launch request
EndedFatally ==
    /\ pc = "done"
    /\ exit_code = 1
    /\ sent.launch = 0

\* C7: each lookup is requested only after the one before it succeeded, a launch
\* request only after all of them did; a failed login, a project listing that is
\* never 200, an unmatched project, a failed session listing, a failed catalog and
\* an unmatched command each end the run with exit code 1 and no launch request;
\* the session listing and the catalog are requested at most once.
C7_LookupsBeforeLaunch ==
    /\ sent.sessions <= 1
    /\ sent.commands <= 1
    /\ sent.projects > 0 => last_status.auth = 200
    /\ sent.sessions > 0 =>
          /\ last_status.projects = 200
          /\ ~NoProjectHit
          /\ options.project_id /= None
    /\ sent.commands > 0 => last_status.sessions = 200
    /\ sent.launch > 0 =>
          /\ last_status.commands = 200
          /\ ~NoCommandHit
          /\ sessions = DictReader(server_sessions)
    /\ (sent.auth > 0 /\ last_status.auth /= 200) => EndedFatally /\ sent.projects = 0
    /\ (sent.projects = 10 /\ first_ok = 0 /\ pc /= "resolve_project") =>
          EndedFatally /\ sent.sessions = 0
    /\ (last_status.projects = 200 /\ NoProjectHit /\ pc /= "resolve_project") =>
          EndedFatally /\ sent.sessions = 0
    /\ (sent.sessions > 0 /\ last_status.sessions /= 200) =>
          EndedFatally /\ sent.commands = 0
    /\ (sent.commands > 0 /\ last_status.commands /= 200) => EndedFatally
    /\ (last_status.commands = 200 /\ NoCommandHit) => EndedFatally

C7_Witness ==
    /\ EndedFatally
    /\ sent.sessions = 1
    /\ last_status.sessions = 500
    /\ sent.commands = 0
    /\ options.project_id = "P1"

\* C8: when no row of the listing has the requested identifier as ID or name, the
\* run fails with an error that names the requested project and lists the names of
\* all projects of the listing.
C8_NotFoundListsKnownNames ==
    (pc = "done" /\ last_status.projects = 200 /\ NoProjectHit) =>
        /\ exit_code = 1
        /\ Len(error.args) = 2
        /\ error.args[1] = options.project
        /\ error.args[2] = ProjectNamesOf(DictReader(server_projects))

\* C9: the project id is the ID of the first row, in listing order, whose ID or
\* name equals the identifier exactly; resolution fails only when no row does; for
\* a row no earlier row collides with, its ID and its name both resolve to its ID.
C9_FirstMatchingRow ==
    LET projects == DictReader(server_projects)
        Collides(j, i) ==
            \/ projects[j]["ID"] \in {projects[i]["ID"], projects[i]["name"]}
            \/ projects[j]["name"] \in {projects[i]["ID"], projects[i]["name"]}
    IN /\ options.project_id /= None =>
            \E i \in DOMAIN projects :
                /\ Hit(i)
                /\ \A j \in 1..(i - 1) : ~Hit(j)
                /\ options.project_id = projects[i]["ID"]
       /\ (pc = "done" /\ last_status.projects = 200) => NoProjectHit
       /\ \A i \in DOMAIN projects :
            (\A j \in 1..(i - 1) : ~Collides(j, i)) =>
                /\ ProjectId(projects, projects[i]["ID"]) = projects[i]["ID"]
                /\ ProjectId(projects, projects[i]["name"]) = projects[i]["ID"]

C9_Witness ==
    /\ pc = "get_sessions"
    /\ options.project = "P1"
    /\ options.project_id = "P2"
    /\ Len(DictReader(server_projects)) = 2
    /\ Hit(2)

\* C10: the project listing is requested at least once and at most 10 times; no
\* request follows the first 200 reply; without a 200 the loop goes on to the 10th
\* request, and then the run fails with an error carrying the status and the body
\* of the 10th reply.
C10_ProjectListingRetries ==
    /\ sent.projects <= 10
    /\ pc \in {"resolve_project", "get_sessions"} => sent.projects >= 1
    /\ first_ok /= 0 =>
          /\ sent.projects = first_ok
          /\ last_status.projects = 200
          /\ pc /= "get_project"
    /\ (first_ok = 0 /\ pc = "get_project") => sent.projects < 10
    /\ (first_ok = 0 /\ pc = "resolve_project") => sent.projects = 10
    /\ (first_ok = 0 /\ sent.projects = 10 /\ last_status.projects /= NoResponse
                     /\ pc = "done") =>
          /\ exit_code = 1
          /\ error.text = ProjectDownloadFailedText
          /\ error.args = <<last_status.projects, Body("projects", 10)>>

C10_Witness ==
    /\ pc = "done"
    /\ exit_code = 1
    /\ sent.projects = 10
    /\ last_status.projects = 404
    /\ error.text = ProjectDownloadFailedText

\* C11: the command is the first descriptor of the catalog, in catalog order, whose
\* command-name equals the requested name; every launch request is made with its
\* command-id and wrapper-id; when no descriptor matches the run fails with an
\* error listing all command names of the catalog; a catalog reply other than 200
\* fails the run after that one request.
C11_FirstMatchingCommand ==
    LET commands == [i \in DOMAIN server_commands |-> JsonObject(server_commands[i])]
        CHit(i) == commands[i]["command-name"] = options.command
    IN /\ options.command_id /= 0 =>
            \E i \in DOMAIN commands :
                /\ CHit(i)
                /\ \A j \in 1..(i - 1) : ~CHit(j)
                /\ options.command_id = commands[i]["command-id"]
                /\ options.command_wrapper_id = commands[i]["wrapper-id"]
       /\ sent.launch > 0 => options.command_id /= 0
       /\ \A e \in DOMAIN Posts :
            Posts[e].url =
                <<options.project_id, options.command_id, options.command_wrapper_id>>
       /\ (last_status.commands = 200 /\ NoCommandHit) =>
            /\ EndedFatally
            /\ error.text = CommandNotFoundText
            /\ error.args =
                <<options.command,
                  [i \in DOMAIN commands |-> commands[i]["command-name"]]>>
       /\ (sent.commands > 0 /\ last_status.commands \notin {200, NoResponse}) =>
            /\ EndedFatally
            /\ sent.commands = 1
            /\ error.text = CommandQueryFailedText

C11_Witness ==
    /\ pc = "inter_sleep"
    /\ Len(server_commands) = 3
    /\ options.command = "qc"
    /\ options.command_id = 5
    /\ Posts /= <<>>
    /\ Posts[1].url = <<"P1", 5, 9>>

\* C13: login is requested at most once and before any other request; a reply
\* other than 200 ends the run at once with an error carrying the reply's body and
\* no other request is made; on 200 the body is the JSESSIONID cookie of every
\* project-listing request.
C13_LoginOnceFirst ==
    /\ sent.auth <= 1
    /\ (sent.projects + sent.sessions + sent.commands + sent.launch > 0) =>
          /\ sent.auth = 1
          /\ last_status.auth = 200
    /\ sent.projects > 0 => cookie = Token
    /\ (sent.auth = 1 /\ last_status.auth \notin {200, NoResponse}) =>
          /\ pc = "done"
          /\ exit_code = 1
          /\ error.text = LoginFailedText
          /\ error.args = <<Body("auth", 1)>>
          /\ sent.projects + sent.sessions + sent.commands + sent.launch = 0

C13_Witness ==
    /\ pc = "done"
    /\ exit_code = 1
    /\ sent.auth = 1
    /\ last_status.auth = 404
    /\ sent.projects = 0

\* C16: when run_command returns, its last log record is the info record "Started
\* successfully", whatever the outcome; the failure warning is logged exactly when
\* the last reply's status is not 200, 501 or 502, so an exhausted session has both.
C16_StartedAlwaysLogged ==
    /\ SessionEnded =>
          /\ Last(session_log) = LogRecord("info", PlainString(StartedText))
          /\ LoggedText(LaunchFailedText) <=> r.status_code \notin {200, 501, 502}
    /\ pc \in {"launch", "retry_sleep", "report"} =>
          /\ ~LoggedText(LaunchFailedText)
          /\ ~LoggedText(StartedText)

C16_Witness ==
    /\ SessionEnded
    /\ Len(Posts) = 10
    /\ r.status_code = 500
    /\ LoggedText(LaunchFailedText)
    /\ LoggedText(StartedText)

\* C17: with skip >= N no launch request and no inter-launch sleep is ever made,
\* the loop cannot fail, and a run that reaches the loop ends normally with every
\* session logged as skipped; with skip <= 0 a run that ends normally has
\* dispatched every session and skipped none.
C17_SkipOutOfRange ==
    LET N == Len(DictReader(server_sessions))
        All == [i \in 1..N |-> i - 1]
    IN /\ options.skip >= N =>
            /\ sent.launch = 0
            /\ inter_sleeps = <<>>
            /\ dispatched = <<>>
            /\ pc = "loop" => exit_code = NotExited /\ skipped = [i \in 1..idx |-> i - 1]
            /\ (pc = "done" /\ exit_code = 1) => skipped = <<>> /\ idx = 0
            /\ (pc = "done" /\ exit_code = 0) => skipped = All
       /\ options.skip <= 0 =>
            /\ skipped = <<>>
            /\ (pc = "done" /\ exit_code = 0) =>
                  /\ dispatched = All
                  /\ Len(inter_sleeps) = N

C17_Witness ==
    /\ pc = "done"
    /\ exit_code = 0
    /\ Len(sessions) = 2
    /\ options.skip = 3
    /\ skipped = <<0, 1>>
    /\ sent.launch = 0

\* the answer without its leading and trailing whitespace
Core(answer) ==
    LET solid == {i \in DOMAIN answer : answer[i] \notin {" ", "\t", "\n"}}
    IN IF solid = {} THEN <<>>
       ELSE SubSeq(answer, CHOOSE i \in solid : \A j \in solid : i <= j,
                           CHOOSE i \in solid : \A j \in solid : j <= i)

\* the answer is the word, letter by letter, in either case
Spells(answer, lower, upper) ==
    /\ Len(answer) = Len(lower)
    /\ \A i \in DOMAIN answer : answer[i] \in {lower[i], upper[i]}

IsYes(answer) ==
    \/ Spells(Core(answer), <<"y">>, <<"Y">>)
    \/ Spells(Core(answer), <<"y", "e", "s">>, <<"Y", "E", "S">>)

\* the run is in, or has been through, the dispatch loop
LoopEntered ==
    \/ pc \in {"loop", "launch", "retry_sleep", "report", "inter_sleep"}
    \/ sent.launch > 0
    \/ dispatched /= <<>>
    \/ skipped /= <<>>
    \/ (pc = "done" /\ exit_code = 0)

\* C12: without --yes the loop is entered only after one prompt whose answer,
\* trimmed and lower-cased, is "y" or "yes"; any other answer ends the run with a
\* non-zero exit code and no launch request, and such an answer always lets the
\* run go on; with --yes no prompt is read and the run is never declined.
C12_ConfirmationGate ==
    /\ prompted <= 1
    /\ prompted = 1 => ~options.yes /\ last_status.commands = 200
    /\ options.yes =>
          /\ prompted = 0
          /\ ~(pc = "done" /\ exit_code = 1 /\ error = NoError)
    /\ (~options.yes /\ LoopEntered) => prompted = 1 /\ IsYes(confirm)
    /\ (prompted = 1 /\ ~IsYes(confirm)) =>
          /\ pc = "done"
          /\ exit_code \notin {0, NotExited}
          /\ sent.launch = 0
          /\ dispatched = <<>>
          /\ skipped = <<>>
    /\ (prompted = 1 /\ IsYes(confirm)) =>
          ~(pc = "done" /\ exit_code = 1 /\ error = NoError)

C12_Witness ==
    /\ ~options.yes
    /\ prompted = 1
    /\ confirm = <<" ", "Y", "e", "s", "\n">>
    /\ sent.launch > 0

\* every run_command call so far has issued between 1 and MaxTries requests
LaunchesBounded ==
    LET N == Len(sessions)
        k == options.skip
    IN /\ Len(Posts) <= 10
       /\ tries <= 10
       /\ SessionEnded => Len(Posts) >= 1
       /\ (pc = "report" /\ error = NoError) => Len(Posts) >= 1
       /\ sent.launch <= 10 * Len(dispatched)
       /\ sent.launch >= Len(dispatched) - 1
       /\ k \in 0..N => sent.launch <= 10 * (N - k)

\* the most steps run_command and the sleep after it can take for one session
StepsPerSession == 2 * MaxTries + 3

\* an upper bound on the number of steps the run can still take
Remaining ==
    LET rest(n) == n * StepsPerSession + 1
        whole == rest(Len(DictReader(server_sessions)))
        after == rest(Len(sessions) - idx - 1)
    IN CASE pc = "login" -> whole + MaxTries + 5
         [] pc = "get_project" -> whole + (MaxTries - tries) + 4
         [] pc = "resolve_project" -> whole + 4
         [] pc = "get_sessions" -> whole + 3
         [] pc = "get_command" -> whole + 2
         [] pc = "confirm" -> whole + 1
         [] pc = "loop" -> rest(Len(sessions) - idx)
         [] pc = "launch" -> after + 2 * (MaxTries - tries) + 2
         [] pc = "retry_sleep" -> after + 2 * (MaxTries - tries) + 3
         [] pc = "report" -> after + 2
         [] pc = "inter_sleep" -> after + 1
         [] pc = "done" -> 0

\* a run that has not ended can take a step, and has only finitely many left
Terminating ==
    /\ Remaining >= 0
    /\ pc /= "done" => ENABLED Next

\* C14: whatever the launch replies are, each run_command call issues at least 1
\* and at most 10 launch requests and returns, and a run over N sessions with
\* 0 <= skip <= N ends after at most 10 * (N - skip) launch requests: the run can
\* always step until it has ended and every step lowers a bound on the steps left.
C14_BoundedLaunches ==
    /\ [](LaunchesBounded /\ Terminating)
    /\ [][Remaining' < Remaining]_vars

C14_Witness ==
    /\ pc = "done"
    /\ exit_code = 0
    /\ options.skip = 0
    /\ Len(sessions) = 2
    /\ sent.launch = 20

----------------------------------------------------------------------------
(* Properties of a run compared with another run. *)

\* the session IDs of the snapshot the server lists, in listing order
SnapshotIds ==
    LET snapshot == DictReader(server_sessions)
    IN [i \in DOMAIN snapshot |-> snapshot[i]["ID"]]

SessionsOf(requests) == [i \in DOMAIN requests |-> requests[i].session]

IsPrefix(s, t) == Len(s) <= Len(t) /\ s = SubSeq(t, 1, Len(s))

Occurrences(s, x) == Cardinality({i \in DOMAIN s : s[i] = x})

\* C15: over one unchanged snapshot a run with skip = k launches what a run with
\* skip = 0 launches minus its first k sessions, in the same order; so a run killed
\* after finishing its k-th session and a complete run with skip = k together
\* launch every session of the snapshot exactly once, in listing order.
C15_ResumeComposes ==
    LET N == Len(SnapshotIds)
        k == options.skip
        now == SessionsOf(launched)
        before == SessionsOf(previous.launched)
    IN /\ k \in 0..N => IsPrefix(now, SubSeq(SnapshotIds, k + 1, N))
       /\ (pc = "done" /\ exit_code = 0 /\ k \in 0..N) =>
             now = SubSeq(SnapshotIds, k + 1, N)
       /\ pc = "killed" => IsPrefix(now, SnapshotIds) /\ Len(now) = Len(dispatched)
       /\ previous.program /= None =>
             /\ k = Len(before)
             /\ before = SubSeq(SnapshotIds, 1, k)
             /\ (pc = "done" /\ exit_code = 0) =>
                   /\ before \o now = SnapshotIds
                   /\ \A i \in DOMAIN SnapshotIds :
                         Occurrences(before \o now, SnapshotIds[i]) = 1

C15_Witness ==
    /\ previous.program = Batchrun
    /\ Len(previous.launched) = 1
    /\ pc = "done"
    /\ exit_code = 0
    /\ skipped = <<0>>
    /\ Len(launched) = 1
    /\ Len(SnapshotIds) = 2

\* C18: the older script issues exactly one launch request per session it reaches;
\* the first reply other than 200 (501 and 502 included) raises, the run ends with
\* exit code 1 and no later session is launched; when every reply was 200 its
\* launch requests are, one for one and in order, those of a run of xnat_batchrun
\* with skip 0 whose replies were all 200 too.
C18_AutorunNoRetry ==
    /\ program = Autorun =>
          /\ sent.launch = Len(dispatched)
          /\ Len(launched) = sent.launch
          /\ IsPrefix(SessionsOf(launched), SnapshotIds)
          /\ tries = 0
          /\ Len(Posts) <= 1
          /\ ~all_ok =>
                /\ pc = "done"
                /\ exit_code = 1
                /\ Last(Posts).status /= 200
                /\ Last(Posts).session = Last(launched).session
                /\ ~LoggedText(StartedText)
                /\ error.text \in {AutorunLaunchFailedText, ConnectionError.text}
          /\ (pc = "done" /\ exit_code = 0) =>
                all_ok /\ SessionsOf(launched) = SnapshotIds
    /\ (/\ program = Batchrun
        /\ previous.program = Autorun
        /\ options.skip = 0
        /\ pc = "done"
        /\ exit_code = 0
        /\ all_ok) =>
          /\ previous.all_ok
          /\ sent.launch = Len(launched)
          /\ launched = previous.launched

C18_Witness ==
    /\ program = Batchrun
    /\ options.skip = 0
    /\ previous.program = Autorun
    /\ Len(previous.launched) = 2
    /\ pc = "done"
    /\ exit_code = 0
    /\ all_ok
    /\ Len(launched) = 2

====
